---- MODULE Spec2Model ----
(***************************************************************************)
(* A model of the ingestion engine of xenofde-backend: IngestionService    *)
(* (ingestCustomers, ingestProducts, ingestOrders, ingestAll), the         *)
(* scheduled sync cycle that calls it for every tenant, the store it       *)
(* writes to (the tables and unique indexes of the migration), the webhook *)
(* endpoint and the sync routes that trigger it, the event log and the     *)
(* registration of tenants.                                                *)
(*                                                                         *)
(* Every await of the code (one remote fetch, one store operation) is one  *)
(* step of a run; runs interleave between steps.                           *)
(***************************************************************************)
EXTENDS Integers, Sequences, FiniteSets, TLC

\* Absent values, one per type: TLC compares values of one type only.
NoId == 0                        \* a null reference (ids start at 1)
NoText == "<null>"               \* a null or undefined string field
Undefined == << "undefined" >>   \* an undefined numeric text
Num(v) == [tag |-> "num", val |-> v]
NaN == [tag |-> "nan", val |-> 0]      \* parseFloat of an unparsable text
Null == [tag |-> "null", val |-> 0]    \* a null amount

(***************************************************************************)
(* Bounds of the model.                                                    *)
(***************************************************************************)
MaxCalls == 3              \* on-demand calls of one sequential session
MaxRemoteChanges == 1      \* changes of the remote shop in a sequential session
MaxTriggers == 2           \* on-demand calls that overlap one another
Limit == 2                 \* records of one page (the `limit` of a page request)
MaxRequests == 1           \* requests (webhooks, sync routes) of one intake session
MaxEvents == 1             \* POST /events requests during one scheduled cycle
MaxRegisters == 2          \* register requests that overlap one another

Tenants == {"t1", "t2"}
Kinds == {"customers", "products", "orders"}

(***************************************************************************)
(* Texts are sequences of characters, so that parseFloat is computed.      *)
(***************************************************************************)
Digits == {"0", "1", "2", "3", "4", "5", "6", "7", "8", "9"}

DigitVal(c) ==
    CASE c = "0" -> 0 [] c = "1" -> 1 [] c = "2" -> 2 [] c = "3" -> 3
      [] c = "4" -> 4 [] c = "5" -> 5 [] c = "6" -> 6 [] c = "7" -> 7
      [] c = "8" -> 8 [] c = "9" -> 9

\* The number of leading characters of s, from position i on, that are in S.
RECURSIVE Span(_, _, _)
Span(s, i, S) ==
    IF i <= Len(s) /\ s[i] \in S THEN 1 + Span(s, i + 1, S) ELSE 0

\* The value of the digits s[i .. i + n - 1].
RECURSIVE DigitsVal(_, _, _)
DigitsVal(s, i, n) ==
    IF n = 0 THEN 0 ELSE DigitsVal(s, i, n - 1) * 10 + DigitVal(s[i + n - 1])

(***************************************************************************)
(* parseFloat: skips leading blanks, reads an optional sign, digits and an *)
(* optional fraction, ignores whatever follows, and yields NaN when no     *)
(* digit was read (also for undefined).  Amounts are kept in hundredths,   *)
(* the scale of the DECIMAL(10,2) columns; the texts of the model have at  *)
(* most two fraction digits.                                               *)
(***************************************************************************)
ParseFloat(s) ==
    LET b    == Span(s, 1, {" "})
        neg  == b + 1 <= Len(s) /\ s[b + 1] = "-"
        sgn  == IF b + 1 <= Len(s) /\ s[b + 1] \in {"-", "+"} THEN 1 ELSE 0
        p    == b + sgn + 1
        ni   == Span(s, p, Digits)
        dot  == p + ni <= Len(s) /\ s[p + ni] = "."
        nf   == IF dot THEN Span(s, p + ni + 1, Digits) ELSE 0
        whole == DigitsVal(s, p, ni)
        frac == IF nf = 0 THEN 0
                ELSE IF nf = 1 THEN 10 * DigitVal(s[p + ni + 1])
                ELSE DigitsVal(s, p + ni + 1, 2)
        v    == whole * 100 + frac
    IN  IF ni = 0 /\ nf = 0 THEN NaN
        ELSE IF neg THEN Num(0 - v) ELSE Num(v)

\* JavaScript truthiness, per type.
TruthyNum(a) == a.tag = "num" /\ a.val # 0
TruthyText(s) == s # << >> /\ s # Undefined
TruthyStr(s) == s # "" /\ s # NoText

\* mutant: parseFloat(x) without the `|| 0`
ParseNoDefault(s) == ParseFloat(s)

\* parseFloat(x) || 0
ParseOrZero(s) == IF TruthyNum(ParseFloat(s)) THEN ParseFloat(s) ELSE Num(0)

\* x ? parseFloat(x) : null
ParseOrNull(s) == IF TruthyText(s) THEN ParseFloat(s) ELSE Null

\* x || null for a string field
StrOrNull(s) == IF TruthyStr(s) THEN s ELSE NoText

\* id.toString() of a remote id
IdToString(n) ==
    CASE n = 1 -> "1" [] n = 2 -> "2" [] n = 3 -> "3" [] n = 4 -> "4"
      [] n = 5 -> "5" [] OTHER -> "?"

(***************************************************************************)
(* The Entity Mapper: the `data` objects of the three ingestions.          *)
(* email stands for the four contact fields, all mapped by `x || null`.    *)
(***************************************************************************)
MapCustomer(c) ==
    [ shopifyId   |-> IdToString(c.id),
      email       |-> StrOrNull(c.email),
      totalSpent  |-> ParseOrZero(c.total_spent),
      ordersCount |-> c.orders_count ]

\* price comes from the first variant, null when there is none
MapProduct(p) ==
    [ shopifyId |-> IdToString(p.id),
      title     |-> p.title,
      price     |-> IF Len(p.variants) > 0
                    THEN ParseFloat(p.variants[1].price) ELSE Null ]

\* mutant: the resolved customer is left out of the order's data
MapOrderNoCustomer(o, customerId) ==
    [ shopifyId  |-> IdToString(o.id),
      totalPrice |-> ParseOrZero(o.total_price),
      customerId |-> NoId ]

MapOrder(o, customerId) ==
    [ shopifyId  |-> IdToString(o.id),
      totalPrice |-> ParseOrZero(o.total_price),
      customerId |-> customerId ]

MapItem(item, orderId, productId) ==
    [ orderId          |-> orderId,
      productId        |-> productId,
      shopifyProductId |-> IF item.product_id # NoId
                           THEN IdToString(item.product_id) ELSE NoText,
      title            |-> item.title,
      quantity         |-> item.quantity,
      price            |-> ParseOrZero(item.price) ]

\* A row: the mapped fields, the internal id and, for a tenant-owned table,
\* the tenant.
Row(data, id, t) == data @@ [id |-> id, tenantId |-> t]
ItemRow(data, id) == data @@ [id |-> id]

(***************************************************************************)
(* The store: one set of rows per table.                                   *)
(***************************************************************************)
VARIABLES remote, customers, products, orders, orderItems,
          run, call, sched, changes,
          events, posted, tenants, users, reg

vars == << remote, customers, products, orders, orderItems,
           run, call, sched, changes,
           events, posted, tenants, users, reg >>

\* the events table with the answers of POST /events, and the tenants and
\* users tables with the register requests: no ingestion touches them
side == << events, posted, tenants, users, reg >>

Table(kind) ==
    CASE kind = "customers" -> customers
      [] kind = "products"  -> products
      [] kind = "orders"    -> orders

\* mutant: the lookup leaves the tenant out of the key
MatchingAnyTenant(table, t, sid) == {r \in table : r.shopifyId = sid}

\* The rows findUnique({tenantId_shopifyId}) matches.
Matching(table, t, sid) ==
    {r \in table : r.tenantId = t /\ r.shopifyId = sid}

\* mutant: the lookup never matches
FindUniqueMiss(table, t, sid) == NoId

\* findUnique: the id of the row found, NoId for null.
FindUnique(table, t, sid) ==
    IF Matching(table, t, sid) = {} THEN NoId
    ELSE (CHOOSE r \in Matching(table, t, sid) : TRUE).id

\* mutant: the table has no unique index
NoUniqueIndex(table, t, sid) == FALSE

\* The unique index on (tenantId, shopifyId) rejects the insert.
UniqueViolation(table, t, sid) ==
    \E r \in table : r.tenantId = t /\ r.shopifyId = sid

\* A new internal id: one no row of the table carries.
FreshId(table) ==
    CHOOSE n \in 1..(Cardinality(table) + 1) : \A r \in table : r.id # n

\* mutant: the update merges, keeping a stored field the new data clears
UpdateRowMerge(table, id, data) ==
    {IF r.id = id
     THEN Row([f \in DOMAIN data |->
                 IF f = "email" /\ r[f] # data[f] THEN r[f] ELSE data[f]],
              r.id, r.tenantId)
     ELSE r : r \in table}

\* The fields an update assigns: all of `data`, but a field whose value is
\* undefined (a product's title is mapped as it came) is left as stored.
Assigned(data, r) ==
    [f \in DOMAIN data |->
        IF f = "title" /\ data[f] = NoText THEN r[f] ELSE data[f]]

\* update({where: {id}, data}): the mapped fields are overwritten, the id
\* and the tenant stay.
UpdateRow(table, id, data) ==
    {IF r.id = id THEN Row(Assigned(data, r), r.id, r.tenantId) ELSE r : r \in table}

\* create() without a value for a required column (products.title) is
\* rejected.
MissingRequired(kind, data) == kind = "products" /\ data.title = NoText

\* create({data: {...data, tenantId}})
CreateRow(table, data, t) == table \cup {Row(data, FreshId(table), t)}

\* deleteMany({where: {orderId}})
DeleteItemsOf(items, orderId) == {it \in items : it.orderId # orderId}

(***************************************************************************)
(* The remote shop.  A text is a sequence of characters.                   *)
(***************************************************************************)
Txt1250 == << "1", "2", ".", "5" >>
Txt999  == << "9", ".", "9", "9" >>
Txt30   == << "3", "0" >>
Txt0    == << "0", ".", "0", "0" >>
TxtBad  == << "a", "b", "c" >>

Cust(id, email, spent) ==
    [id |-> id, email |-> email, total_spent |-> spent, orders_count |-> 1]

Prod(id, title, prices) ==
    [id |-> id, title |-> title, variants |-> [n \in DOMAIN prices |-> [price |-> prices[n]]]]

Line(pid, title, price) ==
    [product_id |-> pid, title |-> title, quantity |-> 1, price |-> price]

Ord(id, cust, total, lines) ==
    [id |-> id, customer |-> cust, total_price |-> total, line_items |-> lines]

Lines3 == << Line(1, "shirt", Txt999), Line(2, "cap", Txt1250), Line(NoId, "tip", TxtBad) >>
Lines1 == << Line(1, "shirt", Txt999) >>

\* the collections the remote shop of a tenant may change to
CustomerLists ==
    { << Cust(1, "b@x", Txt1250), Cust(2, "", TxtBad) >>,
      << Cust(2, "c@x", Txt0), Cust(1, "a@x", Undefined) >> }

ProductLists ==
    { << Prod(1, "shirt", << Txt999 >>), Prod(2, "cap", << >>) >> }

OrderLists ==
    { << Ord(1, 1, Txt30, Lines1) >>,
      << Ord(1, 1, Txt30, << >>) >>,
      << Ord(1, 1, Txt30, Lines3), Ord(2, NoId, TxtBad, Lines1) >> }

Lists(kind) ==
    CASE kind = "customers" -> CustomerLists
      [] kind = "products"  -> ProductLists
      [] kind = "orders"    -> OrderLists

Shop(cs, ps, os) == [customers |-> cs, products |-> ps, orders |-> os]

(***************************************************************************)
(* The remote source serves a collection in pages.  A page request carries *)
(* `limit` and, after the first, `page_info`; the cursor of the model is   *)
(* the number of records before the page.  The response carries the        *)
(* records of the page and a link header: a link to the previous page when *)
(* there is one, then a link to the next page when there is one; with a    *)
(* single page there is no header.                                         *)
(***************************************************************************)
NoCursor == 0                    \* pageInfo = null

Min(a, b) == IF a < b THEN a ELSE b

PageLink(rel, cursor) == [rel |-> rel, page_info |-> cursor]

Response(all, cursor, limit) ==
    [ data |-> SubSeq(all, cursor + 1, Min(cursor + limit, Len(all))),
      link |-> (IF cursor > 0
                THEN << PageLink("previous", IF cursor > limit THEN cursor - limit ELSE NoCursor) >>
                ELSE << >>)
               \o (IF cursor + limit < Len(all)
                   THEN << PageLink("next", cursor + limit) >>
                   ELSE << >>) ]

\* mutant: the cursor of the first link, whatever its rel
NextCursorAnyRel(link) ==
    IF link = << >> THEN NoCursor ELSE link[1].page_info

\* linkHeader.match(/<[^>]*page_info=([^&>]+)[^>]*>; rel="next"/): the
\* page_info of the link whose rel is next, null without such a link or
\* without a header
NextCursor(link) ==
    IF \E k \in DOMAIN link : link[k].rel = "next"
    THEN link[CHOOSE k \in DOMAIN link : link[k].rel = "next"].page_info
    ELSE NoCursor

(***************************************************************************)
(* Runs.  A run is one call of ingestCustomers, ingestProducts or          *)
(* ingestOrders; pc is the await it is suspended at.  A run is named by    *)
(* who started it: <<"call", n, kind>> for the n-th on-demand call,        *)
(* <<"sched", i, kind>> for the ingestAll of the i-th tenant of a          *)
(* scheduled cycle.                                                        *)
(***************************************************************************)
TenantList == << "t1", "t2" >>       \* the result of tenant.findMany()

IdleRun ==
    [ pc |-> "idle", tenant |-> "-", list |-> << >>, i |-> 0,
      pageInfo |-> NoCursor, requests |-> << >>,
      existing |-> NoId, created |-> 0, updated |-> 0,
      customerId |-> NoId, order |-> NoId, j |-> 0, productId |-> NoId ]

StartRun(t) == [IdleRun EXCEPT !.pc = "fetch", !.tenant = t]

RunIds(nCalls, nSched) ==
    ({"call"} \X (1..nCalls) \X Kinds) \cup ({"sched"} \X (1..nSched) \X Kinds)

Kind(r) == r[3]
Ended(rr) == rr.pc \in {"done", "failed"}
Active(rr) == rr.pc \notin {"idle", "done", "failed"}

\* the locals of one loop iteration, cleared
Cleared(rr) ==
    [rr EXCEPT !.existing = NoId, !.customerId = NoId, !.order = NoId,
               !.j = 0, !.productId = NoId]

\* the end of one iteration of `for (const x of list)`
Advance(rr) ==
    IF rr.i < Len(rr.list)
    THEN [Cleared(rr) EXCEPT !.i = rr.i + 1, !.pc = "find"]
    ELSE [Cleared(rr) EXCEPT !.pc = "done"]

\* an exception leaves the run
Raise(rr) == [Cleared(rr) EXCEPT !.pc = "failed"]

SetTable(kind, new) ==
    /\ customers' = IF kind = "customers" THEN new ELSE customers
    /\ products'  = IF kind = "products" THEN new ELSE products
    /\ orders'    = IF kind = "orders" THEN new ELSE orders

\* await this.shopifyService.getX(), one turn of its do-while: the response
\* of a page request arrives, its records are pushed, and the loop goes on
\* with the next cursor or the collection is returned to the ingestion
Fetch(r) ==
    /\ run[r].pc = "fetch"
    /\ LET rr       == run[r]
           response == Response(remote[rr.tenant][Kind(r)], rr.pageInfo, Limit)
           list     == rr.list \o response.data
           pageInfo == NextCursor(response.link)
           got      == [rr EXCEPT !.list = list, !.pageInfo = pageInfo,
                                  !.requests = Append(@, rr.pageInfo)]
       IN  run' = [run EXCEPT ![r] =
                     IF pageInfo # NoCursor THEN got
                     ELSE IF list = << >>
                     THEN [got EXCEPT !.pc = "done"]
                     ELSE [got EXCEPT !.pc = "find", !.i = 1]]
    /\ UNCHANGED << remote, customers, products, orders, orderItems, call, sched, changes, side >>

\* mutant: the pages fetched before the failure are reconciled
FetchFailKeepsPages(r) ==
    /\ run[r].pc = "fetch"
    /\ run' = [run EXCEPT ![r] =
                 IF @.list = << >> THEN Raise(@)
                 ELSE [@ EXCEPT !.pc = "find", !.i = 1,
                                !.requests = Append(@, run[r].pageInfo)]]
    /\ UNCHANGED << remote, customers, products, orders, orderItems, call, sched, changes, side >>

\* await this.client.get(...) of a page request fails: getX has no catch and
\* no retry, the ingestion raises
FetchFail(r) ==
    /\ run[r].pc = "fetch"
    /\ run' = [run EXCEPT ![r] = Raise([@ EXCEPT !.requests = Append(@, run[r].pageInfo)])]
    /\ UNCHANGED << remote, customers, products, orders, orderItems, call, sched, changes, side >>

\* await this.client.get(...) of a page request is never answered: the
\* client is created without a timeout, the await stays pending
FetchHang(r) ==
    /\ run[r].pc = "fetch"
    /\ run' = [run EXCEPT ![r] = [@ EXCEPT !.pc = "hung",
                                           !.requests = Append(@, run[r].pageInfo)]]
    /\ UNCHANGED << remote, customers, products, orders, orderItems, call, sched, changes, side >>

\* const existing = await prisma.X.findUnique({tenantId_shopifyId}); for a
\* record without id, `id.toString()` throws a TypeError and the call raises
Find(r) ==
    /\ run[r].pc = "find"
    /\ LET rr  == run[r]
           rec == rr.list[rr.i]
       IN  run' = [run EXCEPT ![r] =
                     IF rec.id = NoId THEN Raise(rr)
                     ELSE
                     [rr EXCEPT !.existing = FindUnique(Table(Kind(r)), rr.tenant, IdToString(rec.id)),
                                !.pc = IF Kind(r) = "orders" /\ rec.customer # NoId
                                       THEN "findCustomer" ELSE "write"]]
    /\ UNCHANGED << remote, customers, products, orders, orderItems, call, sched, changes, side >>

\* if (shopifyOrder.customer?.id) customer = await prisma.customer.findUnique(...)
FindCustomer(r) ==
    /\ run[r].pc = "findCustomer"
    /\ LET rr  == run[r]
           rec == rr.list[rr.i]
       IN  run' = [run EXCEPT ![r] =
                     [rr EXCEPT !.customerId = FindUnique(customers, rr.tenant, IdToString(rec.customer)),
                                !.pc = "write"]]
    /\ UNCHANGED << remote, customers, products, orders, orderItems, call, sched, changes, side >>

Data(kind, rec, customerId) ==
    CASE kind = "customers" -> MapCustomer(rec)
      [] kind = "products"  -> MapProduct(rec)
      [] kind = "orders"    -> MapOrder(rec, customerId)

\* mutant: every write is counted as created
WrittenCountsCreated(kind, rr, rowId) ==
    LET counted == [rr EXCEPT !.created = @ + 1]
    IN  IF kind = "orders" /\ Len(rr.list[rr.i].line_items) > 0
        THEN [counted EXCEPT !.pc = "deleteItems", !.order = rowId]
        ELSE Advance(counted)

\* the run after its update or create: the counter, then the order's items
\* or the next record
Written(kind, rr, rowId) ==
    LET counted == IF rr.existing # NoId
                   THEN [rr EXCEPT !.updated = @ + 1]
                   ELSE [rr EXCEPT !.created = @ + 1]
    IN  IF kind = "orders" /\ Len(rr.list[rr.i].line_items) > 0
        THEN [counted EXCEPT !.pc = "deleteItems", !.order = rowId]
        ELSE Advance(counted)

\* if (existing) await prisma.X.update(...) else await prisma.X.create(...)
Write(r) ==
    /\ run[r].pc = "write"
    /\ LET rr    == run[r]
           kind  == Kind(r)
           data  == Data(kind, rr.list[rr.i], rr.customerId)
           table == Table(kind)
       IN  IF rr.existing # NoId
           THEN /\ SetTable(kind, UpdateRow(table, rr.existing, data))
                /\ run' = [run EXCEPT ![r] = Written(kind, rr, rr.existing)]
           ELSE IF \/ MissingRequired(kind, data)
                   \/ UniqueViolation(table, rr.tenant, data.shopifyId)
           THEN /\ SetTable(kind, table)
                /\ run' = [run EXCEPT ![r] = Raise(rr)]
           ELSE /\ SetTable(kind, CreateRow(table, data, rr.tenant))
                /\ run' = [run EXCEPT ![r] = Written(kind, rr, FreshId(table))]
    /\ UNCHANGED << remote, orderItems, call, sched, changes, side >>

\* the run before line item j of its order: the product lookup, or the
\* create when the item has no product_id
AtItem(rr, j) ==
    [rr EXCEPT !.j = j, !.productId = NoId,
               !.pc = IF rr.list[rr.i].line_items[j].product_id # NoId
                      THEN "findProduct" ELSE "createItem"]

\* await prisma.orderItem.deleteMany({where: {orderId: order.id}})
DeleteItems(r) ==
    /\ run[r].pc = "deleteItems"
    /\ orderItems' = DeleteItemsOf(orderItems, run[r].order)
    /\ run' = [run EXCEPT ![r] = AtItem(@, 1)]
    /\ UNCHANGED << remote, customers, products, orders, call, sched, changes, side >>

\* if (item.product_id) product = await prisma.product.findUnique(...)
FindProduct(r) ==
    /\ run[r].pc = "findProduct"
    /\ LET rr   == run[r]
           item == rr.list[rr.i].line_items[rr.j]
       IN  run' = [run EXCEPT ![r] =
                     [rr EXCEPT !.productId = FindUnique(products, rr.tenant, IdToString(item.product_id)),
                                !.pc = "createItem"]]
    /\ UNCHANGED << remote, customers, products, orders, orderItems, call, sched, changes, side >>

\* await prisma.orderItem.create(...)
CreateItem(r) ==
    /\ run[r].pc = "createItem"
    /\ LET rr    == run[r]
           items == rr.list[rr.i].line_items
       IN  /\ orderItems' = orderItems \cup
                  {ItemRow(MapItem(items[rr.j], rr.order, rr.productId), FreshId(orderItems))}
           /\ run' = [run EXCEPT ![r] =
                        IF rr.j < Len(items) THEN AtItem(rr, rr.j + 1) ELSE Advance(rr)]
    /\ UNCHANGED << remote, customers, products, orders, call, sched, changes, side >>

(***************************************************************************)
(* On-demand calls: the sync routes and the webhook handlers build an      *)
(* IngestionService for the tenant and await one targeted ingestion.       *)
(***************************************************************************)
NoSignature == << >>             \* no x-shopify-hmac-sha256 header

\* A call is one request: of a sync route (via "sync": op and the tenant id
\* of the token) or of the webhook endpoint (via "hook": the three headers
\* and the body sent; op and tenant once the topic is dispatched; order is
\* what getOrder returned).
IdleCall ==
    [ op |-> "-", tenant |-> "-", state |-> "idle", via |-> "-", status |-> 0,
      signature |-> NoSignature, shopDomain |-> NoText, topic |-> NoText,
      body |-> NoText, order |-> "-" ]

CallRun(n) == << "call", n, call[n].op >>

\* const result = await ingestionService.ingestX()   (the call starts)
StartCall(n, op, t) ==
    /\ call[n].state = "idle"
    /\ \A m \in DOMAIN call : m < n => call[m].state # "idle"
    /\ call' = [call EXCEPT ![n] = [IdleCall EXCEPT !.via = "sync", !.op = op,
                                                   !.tenant = t, !.state = "running"]]
    /\ run' = [run EXCEPT ![<< "call", n, op >>] = StartRun(t)]
    /\ UNCHANGED << remote, customers, products, orders, orderItems, sched, changes, side >>

\* the promise the route awaits: of ingestAll, or of the one ingestion
Outcome(n) ==
    IF call[n].op = "all"
    THEN IF \E k \in Kinds : run[<< "call", n, k >>].pc = "failed" THEN "rejected"
         ELSE IF \A k \in Kinds : run[<< "call", n, k >>].pc = "done" THEN "resolved"
         ELSE "pending"
    ELSE IF run[CallRun(n)].pc = "done" THEN "resolved"
         ELSE IF run[CallRun(n)].pc = "failed" THEN "rejected"
         ELSE "pending"

\* res.json({message, result}) or, in the catch, res.status(500)
Respond(n) ==
    /\ call[n].state = "running"
    /\ call[n].via = "sync"
    /\ Outcome(n) # "pending"
    /\ call' = [call EXCEPT ![n] =
                  IF Outcome(n) = "resolved"
                  THEN [@ EXCEPT !.state = "ok", !.status = 200]
                  ELSE [@ EXCEPT !.state = "error", !.status = 500]]
    /\ UNCHANGED << remote, customers, products, orders, orderItems, run, sched, changes, side >>

\* nothing is running: no call awaits a result and no run is suspended
Quiescent ==
    /\ \A n \in DOMAIN call : call[n].state \notin {"running", "findTenant", "getOrder"}
    /\ \A r \in DOMAIN run : ~Active(run[r])

\* a call of a session in which calls follow one another
StartCallSeq(n, op, t) ==
    /\ Quiescent
    /\ StartCall(n, op, t)

\* the remote shop changes one of its collections
RemoteChange(t, kind, list) ==
    /\ Quiescent
    /\ changes < MaxRemoteChanges
    /\ list # remote[t][kind]
    /\ remote' = [remote EXCEPT ![t][kind] = list]
    /\ changes' = changes + 1
    /\ UNCHANGED << customers, products, orders, orderItems, run, call, sched, side >>

(***************************************************************************)
(* ingestAll and the scheduled cycle.                                      *)
(***************************************************************************)
\* Promise.all([ingestCustomers(), ingestProducts(), ingestOrders()]):
\* the three calls are made at once, each running to its first await
StartIngestAll(runs, who, i, t) ==
    [r \in DOMAIN runs |->
        IF r[1] = who /\ r[2] = i THEN StartRun(t) ELSE runs[r]]

\* the promise of Promise.all: rejected with the first rejection, resolved
\* when the three have resolved
IngestAllStatus(who, i) ==
    IF \E k \in Kinds : run[<< who, i, k >>].pc = "failed" THEN "rejected"
    ELSE IF \A k \in Kinds : run[<< who, i, k >>].pc = "done" THEN "resolved"
    ELSE "pending"

IdleSched == [pc |-> "idle", i |-> 0, log |-> << >>]

\* the cron callback: tenants = await prisma.tenant.findMany(), then the
\* first iteration of the loop up to its await
Tick ==
    /\ sched.pc = "idle"
    /\ sched' = [pc |-> "loop", i |-> 1, log |-> << >>]
    /\ run' = StartIngestAll(run, "sched", 1, TenantList[1])
    /\ UNCHANGED << remote, customers, products, orders, orderItems, call, changes, side >>

\* the loop after `await ingestionService.ingestAll()` has settled for
\* tenant i: the result is logged or the error is caught and logged, and
\* the loop goes on to the next tenant
\* mutant: no try/catch around the tenant's ingestAll, a rejection ends the loop
AfterIngestAllNoCatch(s, status) ==
    IF status = "rejected"
    THEN [pc |-> "done", i |-> s.i, log |-> Append(s.log, "failed")]
    ELSE IF s.i < Len(TenantList)
    THEN [pc |-> "loop", i |-> s.i + 1, log |-> Append(s.log, "completed")]
    ELSE [pc |-> "done", i |-> s.i, log |-> Append(s.log, "completed")]

AfterIngestAll(s, status) ==
    LET logged == Append(s.log, IF status = "resolved" THEN "completed" ELSE "failed")
    IN  IF s.i < Len(TenantList)
        THEN [pc |-> "loop", i |-> s.i + 1, log |-> logged]
        ELSE [pc |-> "done", i |-> s.i, log |-> logged]

SchedNext ==
    /\ sched.pc = "loop"
    /\ IngestAllStatus("sched", sched.i) # "pending"
    /\ sched' = AfterIngestAll(sched, IngestAllStatus("sched", sched.i))
    /\ run' = IF sched'.pc = "loop"
              THEN StartIngestAll(run, "sched", sched'.i, TenantList[sched'.i])
              ELSE run
    /\ UNCHANGED << remote, customers, products, orders, orderItems, call, changes, side >>

(***************************************************************************)
(* The tenants table, as registration left it.                             *)
(***************************************************************************)
TenantTable ==
    { [id |-> "t1", shopDomain |-> "one.shop", accessToken |-> "tok1"],
      [id |-> "t2", shopDomain |-> "two.shop", accessToken |-> "tok2"] }

NoTenant == [id |-> "-", shopDomain |-> "-", accessToken |-> "-"]

\* mutant: the lookup by id yields some tenant when none has the id
TenantByIdAny(id) ==
    IF \E t \in TenantTable : t.id = id
    THEN CHOOSE t \in TenantTable : t.id = id
    ELSE CHOOSE t \in TenantTable : TRUE

\* prisma.tenant.findUnique({where: {id}})
TenantById(id) ==
    IF \E t \in TenantTable : t.id = id
    THEN CHOOSE t \in TenantTable : t.id = id
    ELSE NoTenant

\* prisma.tenant.findUnique({where: {shopDomain}})
TenantByDomain(shopDomain) ==
    IF \E t \in TenantTable : t.shopDomain = shopDomain
    THEN CHOOSE t \in TenantTable : t.shopDomain = shopDomain
    ELSE NoTenant

(***************************************************************************)
(* Request bodies.  A text is JSON or not; the JSON texts of the model are *)
(* an object with or without id and an array of one string.                *)
(***************************************************************************)
JObject(id) == [kind |-> "object", id |-> id, items |-> << >>]
JArray(items) == [kind |-> "array", id |-> NoId, items |-> items]
NotJson == [kind |-> "error", id |-> NoId, items |-> << >>]

\* JSON.parse (a SyntaxError is NotJson)
JsonParse(text) ==
    CASE text = "{id:1}"     -> JObject(1)
      [] text = "{}"         -> JObject(NoId)
      [] text = "['{id:1}']" -> JArray(<< "{id:1}" >>)
      [] text = "['{}']"     -> JArray(<< "{}" >>)
      [] OTHER               -> NotJson

\* req.body.toString(): app.use(express.json()) comes before the routes, so
\* the body of a JSON request is parsed when the route's express.raw sees
\* it, and raw leaves a parsed body alone.  An object gives the text
\* "[object Object]", an array its items joined (here: at most one item).
BodyToString(value) ==
    IF value.kind = "object" THEN "[object Object]"
    ELSE IF value.items = << >> THEN ""
    ELSE value.items[1]

\* base64(HMAC-SHA256(text, key)): distinct inputs give distinct digests
Hmac(text, key) == << "sha256", text, key >>

VerifyShopifyWebhook(body, signature, secret) == Hmac(body, secret) = signature

\* mutant: orders/paid is not handled
TopicKindNoPaid(topic) ==
    CASE topic \in {"orders/create", "orders/updated"}       -> "orders"
      [] topic \in {"customers/create", "customers/update"} -> "customers"
      [] topic \in {"products/create", "products/update"}   -> "products"
      [] OTHER                                               -> "-"

\* switch (topic): the handler the topic goes to, "-" for the default
TopicKind(topic) ==
    CASE topic \in {"orders/create", "orders/updated", "orders/paid"} -> "orders"
      [] topic \in {"customers/create", "customers/update"}           -> "customers"
      [] topic \in {"products/create", "products/update"}             -> "products"
      [] OTHER                                                         -> "-"

(***************************************************************************)
(* The webhook endpoint and the sync routes, from the request on.          *)
(***************************************************************************)
Answer(c, status) == [c EXCEPT !.state = "answered", !.status = status]

\* the slot of the next request
NextSlot(n) ==
    /\ call[n].state = "idle"
    /\ \A m \in DOMAIN call : m < n => call[m].state # "idle"

\* POST /api/webhooks/shopify up to `await prisma.tenant.findUnique`: a body
\* express.json cannot parse is answered by the error middleware, missing
\* headers by the handler
Webhook(n, signature, shopDomain, topic, body) ==
    /\ NextSlot(n)
    /\ LET c == [IdleCall EXCEPT !.via = "hook", !.signature = signature,
                                 !.shopDomain = shopDomain, !.topic = topic,
                                 !.body = body]
       IN  call' = [call EXCEPT ![n] =
                      IF JsonParse(body) = NotJson THEN Answer(c, 400)
                      ELSE IF signature = NoSignature \/ shopDomain = NoText \/ topic = NoText
                      THEN Answer(c, 400)
                      ELSE [c EXCEPT !.state = "findTenant"]]
    /\ UNCHANGED << remote, customers, products, orders, orderItems, run, sched, changes, side >>

\* what the handler parsed out of the body string
HookData(c) == JsonParse(BodyToString(JsonParse(c.body)))

\* the handler from the tenant found to the await of its topic's handler:
\* 404, 401, 500 when JSON.parse throws, the switch; handleOrderWebhook
\* catches the TypeError of `orderData.id.toString()` and returns
HookTenant(n) ==
    /\ call[n].state = "findTenant"
    /\ call[n].via = "hook"
    /\ LET c          == call[n]
           tenant     == TenantByDomain(c.shopDomain)
           bodyString == BodyToString(JsonParse(c.body))
           data       == JsonParse(bodyString)
           kind       == TopicKind(c.topic)
           starts     == /\ tenant # NoTenant
                         /\ VerifyShopifyWebhook(bodyString, c.signature, tenant.accessToken)
                         /\ data # NotJson
                         /\ kind \in {"customers", "products"}
       IN  /\ call' = [call EXCEPT ![n] =
                  IF tenant = NoTenant THEN Answer(c, 404)
                  ELSE IF ~VerifyShopifyWebhook(bodyString, c.signature, tenant.accessToken)
                  THEN Answer(c, 401)
                  ELSE IF data = NotJson THEN Answer(c, 500)
                  ELSE IF kind = "-" THEN Answer(c, 200)
                  ELSE IF kind = "orders"
                  THEN IF data.id = NoId THEN Answer(c, 200)
                       ELSE [c EXCEPT !.state = "getOrder", !.tenant = tenant.id]
                  ELSE [c EXCEPT !.state = "running", !.op = kind, !.tenant = tenant.id]]
           /\ run' = IF starts
                     THEN [run EXCEPT ![<< "call", n, kind >>] = StartRun(tenant.id)]
                     ELSE run
    /\ UNCHANGED << remote, customers, products, orders, orderItems, sched, changes, side >>

\* handleOrderWebhook after `await shopifyService.getOrder(id)`: getOrder
\* returns the order, or null when the request fails or no order has the id
HookGetOrder(n, answered) ==
    /\ call[n].state = "getOrder"
    /\ LET c     == call[n]
           list  == remote[c.tenant]["orders"]
           found == answered /\ \E k \in DOMAIN list : list[k].id = HookData(c).id
       IN  /\ call' = [call EXCEPT ![n] =
                  IF found
                  THEN [c EXCEPT !.state = "running", !.op = "orders", !.order = "found"]
                  ELSE [Answer(c, 200) EXCEPT !.order = "null"]]
           /\ run' = IF found
                     THEN [run EXCEPT ![<< "call", n, "orders" >>] = StartRun(c.tenant)]
                     ELSE run
    /\ UNCHANGED << remote, customers, products, orders, orderItems, sched, changes, side >>

\* res.status(200).json({received: true}): the handlers catch what the
\* ingestion raises
HookRespond(n) ==
    /\ call[n].state = "running"
    /\ call[n].via = "hook"
    /\ Ended(run[CallRun(n)])
    /\ call' = [call EXCEPT ![n] = Answer(@, 200)]
    /\ UNCHANGED << remote, customers, products, orders, orderItems, run, sched, changes, side >>

\* POST /sync/all, /sync/customers, /sync/products, /sync/orders up to
\* `await prisma.tenant.findUnique`; tenantId is the one of the token
SyncRequest(n, op, tenantId) ==
    /\ NextSlot(n)
    /\ call' = [call EXCEPT ![n] = [IdleCall EXCEPT !.via = "sync", !.op = op,
                                                   !.tenant = tenantId,
                                                   !.state = "findTenant"]]
    /\ UNCHANGED << remote, customers, products, orders, orderItems, run, sched, changes, side >>

\* the route from the tenant found to the await of the ingestion
SyncTenant(n) ==
    /\ call[n].state = "findTenant"
    /\ call[n].via = "sync"
    /\ LET c      == call[n]
           tenant == TenantById(c.tenant)
       IN  IF tenant = NoTenant
           THEN /\ call' = [call EXCEPT ![n] = Answer(c, 404)]
                /\ run' = run
           ELSE /\ call' = [call EXCEPT ![n].state = "running"]
                /\ run' = IF c.op = "all"
                          THEN StartIngestAll(run, "call", n, tenant.id)
                          ELSE [run EXCEPT ![<< "call", n, c.op >>] = StartRun(tenant.id)]
    /\ UNCHANGED << remote, customers, products, orders, orderItems, sched, changes, side >>

(***************************************************************************)
(* The event log: POST /events and IngestionService.recordEvent.           *)
(***************************************************************************)
\* events_tenantId_fkey: the insert is rejected when no tenant has the id
ForeignKeyViolation(tenantId) == \A t \in tenants : t.id # tenantId

\* mutant: the row is written without the tenant of the service
RecordEventNoTenant(tenantId, eventType, customerId, orderId) ==
    events \cup { [ id |-> FreshId(events), tenantId |-> "-", eventType |-> eventType,
                    customerId |-> StrOrNull(customerId), orderId |-> StrOrNull(orderId) ] }

\* recordEvent: prisma.event.create with this.tenantId, the event type and
\* `customerId || null`, `orderId || null`
RecordEvent(tenantId, eventType, customerId, orderId) ==
    events \cup { [ id |-> FreshId(events), tenantId |-> tenantId, eventType |-> eventType,
                    customerId |-> StrOrNull(customerId), orderId |-> StrOrNull(orderId) ] }

\* router.post('/events'): 400 without an event type; else the event is
\* recorded and the request answered 200, or 500 when the insert is
\* rejected.  The insert is the only await of the handler; posted keeps the
\* request with its answer.
PostEvent(tenantId, eventType, customerId, orderId) ==
    /\ Len(posted) < MaxEvents
    /\ LET status == IF ~TruthyStr(eventType) THEN 400
                     ELSE IF ForeignKeyViolation(tenantId) THEN 500
                     ELSE 200
       IN  /\ events' = IF status = 200
                        THEN RecordEvent(tenantId, eventType, customerId, orderId)
                        ELSE events
           /\ posted' = Append(posted, [tenantId |-> tenantId, eventType |-> eventType,
                                        status |-> status])
    /\ UNCHANGED << remote, customers, products, orders, orderItems, run, call, sched,
                    changes, tenants, users, reg >>

(***************************************************************************)
(* Tenant registration: POST /api/tenant/register.  Every await of the     *)
(* handler is one step of the request.                                     *)
(***************************************************************************)
IdleReg == [pc |-> "idle", shopDomain |-> NoText, email |-> NoText, status |-> 0]

\* body('email').isEmail()
IsEmail(text) == text \in {"one@x", "two@x", "new@x"}

\* the id the store generates for the tenant row of request n
NewTenantId(n) == CASE n = 1 -> "r1" [] n = 2 -> "r2" [] n = 3 -> "r3" [] OTHER -> "r?"

RegAnswer(r, status) == [r EXCEPT !.pc = "answered", !.status = status]

\* the handler up to `await prisma.tenant.findUnique`: the validators
\* (notEmpty on shopDomain, isEmail on email) answer 400
Register(n, shopDomain, email) ==
    /\ reg[n].pc = "idle"
    /\ \A m \in DOMAIN reg : m < n => reg[m].pc # "idle"
    /\ LET r == [IdleReg EXCEPT !.shopDomain = shopDomain, !.email = email]
       IN  reg' = [reg EXCEPT ![n] =
                     IF ~TruthyStr(shopDomain) \/ ~IsEmail(email)
                     THEN RegAnswer(r, 400)
                     ELSE [r EXCEPT !.pc = "findTenant"]]
    /\ UNCHANGED << remote, customers, products, orders, orderItems, run, call, sched,
                    changes, events, posted, tenants, users >>

\* existingTenant = await prisma.tenant.findUnique({where: {shopDomain}})
RegFindTenant(n) ==
    /\ reg[n].pc = "findTenant"
    /\ reg' = [reg EXCEPT ![n] =
                 IF \E t \in tenants : t.shopDomain = reg[n].shopDomain
                 THEN RegAnswer(@, 400)
                 ELSE [@ EXCEPT !.pc = "findUser"]]
    /\ UNCHANGED << remote, customers, products, orders, orderItems, run, call, sched,
                    changes, events, posted, tenants, users >>

\* existingUser = await prisma.user.findUnique({where: {email}})
RegFindUser(n) ==
    /\ reg[n].pc = "findUser"
    /\ reg' = [reg EXCEPT ![n] =
                 IF \E u \in users : u.email = reg[n].email
                 THEN RegAnswer(@, 400)
                 ELSE [@ EXCEPT !.pc = "hash"]]
    /\ UNCHANGED << remote, customers, products, orders, orderItems, run, call, sched,
                    changes, events, posted, tenants, users >>

\* hashedPassword = await bcrypt.hash(password, 10)
RegHash(n) ==
    /\ reg[n].pc = "hash"
    /\ reg' = [reg EXCEPT ![n].pc = "createTenant"]
    /\ UNCHANGED << remote, customers, products, orders, orderItems, run, call, sched,
                    changes, events, posted, tenants, users >>

\* tenant = await prisma.tenant.create(...): tenants_shopDomain_key rejects
\* a second row of the shop domain, the catch answers 500
RegCreateTenant(n) ==
    /\ reg[n].pc = "createTenant"
    /\ IF \E t \in tenants : t.shopDomain = reg[n].shopDomain
       THEN /\ tenants' = tenants
            /\ reg' = [reg EXCEPT ![n] = RegAnswer(@, 500)]
       ELSE /\ tenants' = tenants \cup
                   { [id |-> NewTenantId(n), shopDomain |-> reg[n].shopDomain,
                      accessToken |-> "tok"] }
            /\ reg' = [reg EXCEPT ![n].pc = "createUser"]
    /\ UNCHANGED << remote, customers, products, orders, orderItems, run, call, sched,
                    changes, events, posted, users >>

\* user = await prisma.user.create(...), then res.status(201): users_email_key
\* rejects a second row of the email, the catch answers 500
RegCreateUser(n) ==
    /\ reg[n].pc = "createUser"
    /\ IF \E u \in users : u.email = reg[n].email
       THEN /\ users' = users
            /\ reg' = [reg EXCEPT ![n] = RegAnswer(@, 500)]
       ELSE /\ users' = users \cup
                   { [id |-> FreshId(users), email |-> reg[n].email,
                      tenantId |-> NewTenantId(n)] }
            /\ reg' = [reg EXCEPT ![n] = RegAnswer(@, 201)]
    /\ UNCHANGED << remote, customers, products, orders, orderItems, run, call, sched,
                    changes, events, posted, tenants >>

(***************************************************************************)
(* Specifications.                                                         *)
(***************************************************************************)
\* the users registration left with the tenants of TenantTable
UserTable ==
    { [id |-> 1, email |-> "one@x", tenantId |-> "t1"],
      [id |-> 2, email |-> "two@x", tenantId |-> "t2"] }

\* no event recorded yet, no register request under way
SideIdle ==
    /\ events = {}
    /\ posted = << >>
    /\ tenants = TenantTable
    /\ users = UserTable
    /\ reg = << >>

EmptyStore ==
    /\ customers = {}
    /\ products = {}
    /\ orders = {}
    /\ orderItems = {}

\* the shops of the tenants while calls and cycles overlap
Shops ==
    [t \in Tenants |->
        IF t = "t1"
        THEN Shop(<< Cust(1, "a@x", Txt1250) >>,
                  << Prod(1, "shirt", << Txt999 >>) >>,
                  << Ord(1, 1, Txt30, Lines1) >>)
        ELSE Shop(<< Cust(1, "z@y", TxtBad) >>,
                  << >>,
                  << Ord(1, NoId, Txt30, << Line(NoId, "tip", Txt0) >>) >>)]

\* one await of one run
RunNext ==
    \/ \E r \in DOMAIN run : Fetch(r)
    \/ \E r \in DOMAIN run : FetchFail(r)
    \/ \E r \in DOMAIN run : Find(r)
    \/ \E r \in DOMAIN run : FindCustomer(r)
    \/ \E r \in DOMAIN run : Write(r)
    \/ \E r \in DOMAIN run : DeleteItems(r)
    \/ \E r \in DOMAIN run : FindProduct(r)
    \/ \E r \in DOMAIN run : CreateItem(r)

\* On-demand calls (sync routes, webhooks) of any tenants, overlapping.
Init ==
    /\ remote = Shops
    /\ EmptyStore
    /\ run = [r \in RunIds(MaxTriggers, 0) |-> IdleRun]
    /\ call = [n \in 1..MaxTriggers |-> IdleCall]
    /\ sched = IdleSched
    /\ changes = 0
    /\ SideIdle

Next ==
    \/ RunNext
    \/ \E n \in DOMAIN call, op \in Kinds, t \in Tenants : StartCall(n, op, t)
    \/ \E n \in DOMAIN call : Respond(n)

Spec == Init /\ [][Next]_vars

\* One scheduled cycle over all tenants.
InitCycle ==
    /\ remote = Shops
    /\ EmptyStore
    /\ run = [r \in RunIds(0, Len(TenantList)) |-> IdleRun]
    /\ call = << >>
    /\ sched = IdleSched
    /\ changes = 0
    /\ SideIdle

NextCycle ==
    \/ RunNext
    \/ Tick
    \/ SchedNext

SpecCycle == InitCycle /\ [][NextCycle]_vars

\* A session of on-demand calls of one tenant that follow one another, the
\* remote shop changing between calls.
SessionTenant == "t1"

SessionShops ==
    [t \in Tenants |->
        IF t = SessionTenant
        THEN Shop(<< Cust(1, "a@x", Txt1250), Cust(2, "", TxtBad) >>,
                  << Prod(1, "shirt", << Txt999 >>) >>,
                  << Ord(1, 1, Txt30, Lines3) >>)
        ELSE Shop(<< >>, << >>, << >>)]

InitSeq ==
    /\ remote = SessionShops
    /\ EmptyStore
    /\ run = [r \in RunIds(MaxCalls, 0) |-> IdleRun]
    /\ call = [n \in 1..MaxCalls |-> IdleCall]
    /\ sched = IdleSched
    /\ changes = 0
    /\ SideIdle

NextSeq ==
    \/ RunNext
    \/ \E n \in DOMAIN call, op \in Kinds : StartCallSeq(n, op, SessionTenant)
    \/ \E n \in DOMAIN call : Respond(n)
    \/ \E kind \in Kinds : \E list \in Lists(kind) : RemoteChange(SessionTenant, kind, list)

SpecSeq == InitSeq /\ [][NextSeq]_vars

\* One scheduled cycle in which a page request may stay unanswered.  Every
\* continuation that is ready runs (the event loop), and a request in flight
\* is answered, fails or hangs.
NextCycleHang ==
    \/ NextCycle
    \/ \E r \in DOMAIN run : FetchHang(r)

SpecCycleHang == InitCycle /\ [][NextCycleHang]_vars /\ WF_vars(NextCycleHang)

\* A session of on-demand calls of one tenant whose remote collections hold
\* malformed records: a customer and an order without id, a product without
\* title.
MalformedShops ==
    [t \in Tenants |->
        IF t = SessionTenant
        THEN Shop(<< Cust(1, "a@x", Txt1250), Cust(NoId, "n@x", Txt30), Cust(2, "b@x", Txt0) >>,
                  << Prod(1, "shirt", << Txt999 >>), Prod(2, NoText, << Txt30 >>),
                     Prod(3, "cap", << Txt1250 >>) >>,
                  << Ord(1, 1, Txt30, Lines1), Ord(NoId, 1, Txt30, Lines1) >>)
        ELSE Shop(<< >>, << >>, << >>)]

InitMalformed ==
    /\ remote = MalformedShops
    /\ EmptyStore
    /\ run = [r \in RunIds(MaxCalls, 0) |-> IdleRun]
    /\ call = [n \in 1..MaxCalls |-> IdleCall]
    /\ sched = IdleSched
    /\ changes = 0
    /\ SideIdle

NextMalformed ==
    \/ RunNext
    \/ \E n \in DOMAIN call, op \in Kinds : StartCallSeq(n, op, SessionTenant)
    \/ \E n \in DOMAIN call : Respond(n)

SpecMalformed == InitMalformed /\ [][NextMalformed]_vars

\* The requests of an intake session: webhooks of a known and of an unknown
\* shop, with every handled topic and one that is not, signed over the body
\* sent, over another text, with another tenant's token or not at all;
\* sync requests of a known and of an unknown tenant.
Topics ==
    { "orders/create", "orders/updated", "orders/paid", "customers/create",
      "customers/update", "products/create", "products/update", "app/uninstalled" }

ShopDomains == {"one.shop", "gone.shop"}

\* body and signature header as sent: the payload signed with the shop's
\* token; the same with the digest of another text, without signature and
\* signed with another shop's token; a payload and one without id, each
\* wrapped as the only string of an array and sent with its own digest
Deliveries ==
    { [body |-> "{id:1}",     signature |-> Hmac("{id:1}", "tok1")],
      [body |-> "{id:1}",     signature |-> Hmac("[object Object]", "tok1")],
      [body |-> "{id:1}",     signature |-> NoSignature],
      [body |-> "{id:1}",     signature |-> Hmac("{id:1}", "tok2")],
      [body |-> "['{id:1}']", signature |-> Hmac("{id:1}", "tok1")],
      [body |-> "['{}']",     signature |-> Hmac("{}", "tok1")] }

TokenTenants == {"t1", "t9"}

InitIntake ==
    /\ remote = Shops
    /\ EmptyStore
    /\ run = [r \in RunIds(MaxRequests, 0) |-> IdleRun]
    /\ call = [n \in 1..MaxRequests |-> IdleCall]
    /\ sched = IdleSched
    /\ changes = 0
    /\ SideIdle

NextIntake ==
    \/ RunNext
    \/ \E n \in DOMAIN call, sent \in Deliveries, shopDomain \in ShopDomains :
          \E topic \in Topics :
              Quiescent /\ Webhook(n, sent.signature, shopDomain, topic, sent.body)
    \/ \E n \in DOMAIN call : HookTenant(n)
    \/ \E n \in DOMAIN call, answered \in BOOLEAN : HookGetOrder(n, answered)
    \/ \E n \in DOMAIN call : HookRespond(n)
    \/ \E n \in DOMAIN call, op \in Kinds \cup {"all"}, tenantId \in TokenTenants :
          Quiescent /\ SyncRequest(n, op, tenantId)
    \/ \E n \in DOMAIN call : SyncTenant(n)
    \/ \E n \in DOMAIN call : Respond(n)

SpecIntake == InitIntake /\ [][NextIntake]_vars

\* A session of on-demand calls of one tenant whose remote collections take
\* several page requests.
PagedShops ==
    [t \in Tenants |->
        IF t = SessionTenant
        THEN Shop(<< Cust(1, "a@x", Txt1250), Cust(2, "b@x", Txt30), Cust(3, "c@x", Txt0),
                     Cust(4, "d@x", Txt999), Cust(5, "e@x", TxtBad) >>,
                  << Prod(1, "shirt", << Txt999 >>), Prod(2, "cap", << Txt30 >>),
                     Prod(3, "mug", << >>) >>,
                  << Ord(1, 1, Txt30, Lines1) >>)
        ELSE Shop(<< >>, << >>, << >>)]

InitPages ==
    /\ remote = PagedShops
    /\ EmptyStore
    /\ run = [r \in RunIds(MaxCalls, 0) |-> IdleRun]
    /\ call = [n \in 1..MaxCalls |-> IdleCall]
    /\ sched = IdleSched
    /\ changes = 0
    /\ SideIdle

NextPages ==
    \/ RunNext
    \/ \E n \in DOMAIN call, op \in Kinds : StartCallSeq(n, op, SessionTenant)
    \/ \E n \in DOMAIN call : Respond(n)

SpecPages == InitPages /\ [][NextPages]_vars

\* A session of on-demand calls of one tenant whose remote records carry
\* amounts that do not parse: a customer's total_spent, the price of a
\* product's first variant, an order's total_price and a line item's price.
MoneyShops ==
    [t \in Tenants |->
        IF t = SessionTenant
        THEN Shop(<< Cust(1, "a@x", TxtBad), Cust(2, "b@x", Txt1250) >>,
                  << Prod(1, "shirt", << TxtBad >>), Prod(2, "cap", << >>),
                     Prod(3, "mug", << Txt999 >>) >>,
                  << Ord(1, 1, TxtBad, << Line(1, "shirt", TxtBad) >>) >>)
        ELSE Shop(<< >>, << >>, << >>)]

InitMoney ==
    /\ remote = MoneyShops
    /\ EmptyStore
    /\ run = [r \in RunIds(MaxCalls, 0) |-> IdleRun]
    /\ call = [n \in 1..MaxCalls |-> IdleCall]
    /\ sched = IdleSched
    /\ changes = 0
    /\ SideIdle

NextMoney ==
    \/ RunNext
    \/ \E n \in DOMAIN call, op \in Kinds : StartCallSeq(n, op, SessionTenant)
    \/ \E n \in DOMAIN call : Respond(n)

SpecMoney == InitMoney /\ [][NextMoney]_vars

\* A session of on-demand calls of one tenant whose remote collections hold
\* a record twice: customer 1, product 1 and order 1 occur again later in
\* their collection.
RepeatedShops ==
    [t \in Tenants |->
        IF t = SessionTenant
        THEN Shop(<< Cust(1, "a@x", Txt1250), Cust(2, "b@x", Txt30), Cust(1, "c@x", Txt0) >>,
                  << Prod(1, "shirt", << Txt999 >>), Prod(1, "shirt", << Txt30 >>) >>,
                  << Ord(1, 1, Txt30, Lines1), Ord(1, 1, Txt1250, Lines1) >>)
        ELSE Shop(<< >>, << >>, << >>)]

InitRepeated ==
    /\ remote = RepeatedShops
    /\ EmptyStore
    /\ run = [r \in RunIds(MaxCalls, 0) |-> IdleRun]
    /\ call = [n \in 1..MaxCalls |-> IdleCall]
    /\ sched = IdleSched
    /\ changes = 0
    /\ SideIdle

NextRepeated ==
    \/ RunNext
    \/ \E n \in DOMAIN call, op \in Kinds : StartCallSeq(n, op, SessionTenant)
    \/ \E n \in DOMAIN call : Respond(n)

SpecRepeated == InitRepeated /\ [][NextRepeated]_vars

\* One scheduled cycle during which events are posted: with the token of a
\* tenant and an event type, with the token of a tenant that is gone, and
\* without event type; customerId and orderId are left empty.
EventRequests ==
    { [tenantId |-> "t1", eventType |-> "page_view"],
      [tenantId |-> "t9", eventType |-> "page_view"],
      [tenantId |-> "t1", eventType |-> NoText] }

NextEvents ==
    \/ NextCycle
    \/ \E req \in EventRequests : PostEvent(req.tenantId, req.eventType, "", NoText)

SpecEvents == InitCycle /\ [][NextEvents]_vars

\* Register requests that overlap, after the tenants of TenantTable have
\* registered: for a shop or an email that is taken, for new ones, and with
\* an invalid email.
Registrations ==
    { [shopDomain |-> "one.shop",   email |-> "new@x"],
      [shopDomain |-> "new.shop",   email |-> "one@x"],
      [shopDomain |-> "new.shop",   email |-> "new@x"],
      [shopDomain |-> "other.shop", email |-> "new@x"],
      [shopDomain |-> "new.shop",   email |-> "bad"] }

InitRegister ==
    /\ remote = Shops
    /\ EmptyStore
    /\ run = [r \in RunIds(0, 0) |-> IdleRun]
    /\ call = << >>
    /\ sched = IdleSched
    /\ changes = 0
    /\ events = {}
    /\ posted = << >>
    /\ tenants = TenantTable
    /\ users = UserTable
    /\ reg = [n \in 1..MaxRegisters |-> IdleReg]

NextRegister ==
    \/ \E n \in DOMAIN reg, req \in Registrations : Register(n, req.shopDomain, req.email)
    \/ \E n \in DOMAIN reg : RegFindTenant(n)
    \/ \E n \in DOMAIN reg : RegFindUser(n)
    \/ \E n \in DOMAIN reg : RegHash(n)
    \/ \E n \in DOMAIN reg : RegCreateTenant(n)
    \/ \E n \in DOMAIN reg : RegCreateUser(n)

SpecRegister == InitRegister /\ [][NextRegister]_vars

(***************************************************************************)
(* What the claims speak of.                                               *)
(***************************************************************************)
\* the last on-demand call made, 0 before the first
LatestCall ==
    IF \A n \in DOMAIN call : call[n].state = "idle" THEN 0
    ELSE CHOOSE n \in DOMAIN call :
            /\ call[n].state # "idle"
            /\ \A m \in DOMAIN call : m > n => call[m].state = "idle"

Made(n) == n \in DOMAIN call /\ call[n].state # "idle"

\* the run received its collection (its fetch did not fail)
GotList(rr) == rr.pc \notin {"idle", "fetch"} /\ ~(rr.pc = "failed" /\ rr.i = 0)

DistinctIds(list) ==
    \A a, b \in DOMAIN list : a # b => list[a].id # list[b].id

RowsOf(table, t) == {r \in table : r.tenantId = t}

TenantRows(cs, ps, os, kind, t) ==
    CASE kind = "customers" -> RowsOf(cs, t)
      [] kind = "products"  -> RowsOf(ps, t)
      [] kind = "orders"    -> RowsOf(os, t)

\* every row of the table is still there, with its id, tenant and natural key
RowsKept(old, new) ==
    \A r \in old : \E q \in new :
        q.id = r.id /\ q.tenantId = r.tenantId /\ q.shopifyId = r.shopifyId

\* call n repeats call n - 1: the same ingestion of the same tenant, which
\* returned, and the same collection fetched again, its ids distinct
Repeats(n) ==
    /\ Made(n) /\ n > 1
    /\ call[n].op = call[n - 1].op
    /\ call[n].tenant = call[n - 1].tenant
    /\ run[CallRun(n - 1)].pc = "done"
    /\ GotList(run[CallRun(n)])
    /\ run[CallRun(n)].list = run[CallRun(n - 1)].list
    /\ DistinctIds(run[CallRun(n)].list)

C1_Counters ==
    \A n \in DOMAIN call :
        (Repeats(n) /\ Ended(run[CallRun(n)])) =>
            /\ run[CallRun(n)].pc = "done"
            /\ run[CallRun(n)].created = 0
            /\ run[CallRun(n)].updated = Len(run[CallRun(n)].list)

C1_RowsStable ==
    \A n \in DOMAIN call :
        (Repeats(n) /\ n = LatestCall) =>
            Cardinality(TenantRows(customers', products', orders', call[n].op, call[n].tenant))
              = Cardinality(TenantRows(customers, products, orders, call[n].op, call[n].tenant))

\* C1: Idempotence.  When an ingestion is called twice in succession for one
\* tenant, no other run interleaving, and the second call fetches the same
\* collection of N records with distinct ids, the second call returns
\* created = 0 and updated = N, and no step of it changes the number of the
\* tenant's rows of that entity type.
C1_Idempotence == [](C1_Counters) /\ [][C1_RowsStable]_vars

C1_Witness ==
    /\ Repeats(2)
    /\ call[2].op = "customers"
    /\ run[CallRun(2)].pc = "done"
    /\ run[CallRun(2)].updated = 2
    /\ Cardinality(RowsOf(customers, call[2].tenant)) = 2

\* the call returned and nothing has run since
JustReturned(n, op) ==
    /\ Made(n) /\ n = LatestCall
    /\ call[n].op = op
    /\ run[CallRun(n)].pc = "done"

\* exactly one row of the table carries the natural key, and it holds the
\* mapped fields `data`
Keyed(table, t, sid) == {r \in table : r.tenantId = t /\ r.shopifyId = sid}

OneRowWith(table, t, data) ==
    /\ Cardinality(Keyed(table, t, data.shopifyId)) = 1
    /\ \A r \in Keyed(table, t, data.shopifyId) :
          \A f \in DOMAIN data : r[f] = data[f]

C2_Upserted ==
    \A n \in DOMAIN call :
        (JustReturned(n, "customers") /\ DistinctIds(run[CallRun(n)].list)) =>
            \A k \in DOMAIN run[CallRun(n)].list :
                OneRowWith(customers, call[n].tenant,
                           MapCustomer(run[CallRun(n)].list[k]))

\* C2: Upsert correctness.  After ingestCustomers returns, every remote
\* customer has exactly one Customer row with its (tenantId, remoteId), and
\* the row holds the mapped values of every mapped field; a later ingestion
\* changes that row in place: every Customer row keeps its internal id, its
\* tenantId and its remoteId, so no second row is inserted.
C2_UpsertCorrectness == [](C2_Upserted) /\ [][RowsKept(customers, customers')]_vars

\* the second ingestion met customer 1 with its email changed and updated
\* the row of the first
C2_Witness ==
    /\ JustReturned(2, "customers")
    /\ call[1].op = "customers" /\ run[CallRun(1)].pc = "done"
    /\ run[CallRun(1)].created = 2
    /\ run[CallRun(2)].updated = 2
    /\ \E k \in DOMAIN run[CallRun(1)].list :
          /\ run[CallRun(1)].list[k].id = 1
          /\ run[CallRun(1)].list[k].email = "a@x"
    /\ \E r \in customers : r.shopifyId = "1" /\ r.email = "b@x"
    /\ Cardinality(customers) = 2

\* customerId is the reference of order o resolved against the Customer rows
\* of the tenant: null when the order names no customer or no row exists
\* for the one it names, else the internal id of that row
Resolved(t, o, customerId) ==
    IF o.customer = NoId \/ Keyed(customers, t, IdToString(o.customer)) = {}
    THEN customerId = NoId
    ELSE \E c \in Keyed(customers, t, IdToString(o.customer)) : customerId = c.id

C5_Resolved ==
    \A n \in DOMAIN call :
        (Made(n) /\ n = LatestCall /\ call[n].op = "orders"
           /\ GotList(run[CallRun(n)]) /\ Ended(run[CallRun(n)])) =>
            /\ run[CallRun(n)].pc = "done"
            /\ \A k \in DOMAIN run[CallRun(n)].list :
                  LET o == run[CallRun(n)].list[k]
                  IN  /\ Keyed(orders, call[n].tenant, IdToString(o.id)) # {}
                      /\ \A r \in Keyed(orders, call[n].tenant, IdToString(o.id)) :
                            Resolved(call[n].tenant, o, r.customerId)

ItemsOf(items, orderId) == {it \in items : it.orderId = orderId}

ItemMatches(it, line) ==
    /\ it.shopifyProductId = MapItem(line, it.orderId, it.productId).shopifyProductId
    /\ it.title = line.title
    /\ it.quantity = line.quantity
    /\ it.price = MapItem(line, it.orderId, it.productId).price

ExactItems(items, orderId, lines) ==
    /\ Cardinality(ItemsOf(items, orderId)) = Len(lines)
    /\ \A k \in DOMAIN lines : \E it \in ItemsOf(items, orderId) : ItemMatches(it, lines[k])
    /\ \A it \in ItemsOf(items, orderId) : \E k \in DOMAIN lines : ItemMatches(it, lines[k])

\* C6: Item-set replacement.  After ingestOrders returns (no concurrent
\* run), the stored OrderItem rows of every order of the collection are
\* exactly its current remote line items, whatever the counts before and now.
C6_ItemSetReplaced ==
    \A n \in DOMAIN call :
        JustReturned(n, "orders") =>
            \A k \in DOMAIN run[CallRun(n)].list :
                \A r \in Keyed(orders, call[n].tenant, IdToString(run[CallRun(n)].list[k].id)) :
                    ExactItems(orderItems, r.id, run[CallRun(n)].list[k].line_items)

\* the same, for the orders that have line items now
C6_NonEmptyReplaced ==
    \A n \in DOMAIN call :
        JustReturned(n, "orders") =>
            \A k \in DOMAIN run[CallRun(n)].list :
                Len(run[CallRun(n)].list[k].line_items) > 0 =>
                \A r \in Keyed(orders, call[n].tenant, IdToString(run[CallRun(n)].list[k].id)) :
                    ExactItems(orderItems, r.id, run[CallRun(n)].list[k].line_items)

C8_Persisted ==
    \A n \in DOMAIN call :
        (Made(n) /\ n = LatestCall /\ call[n].op = "customers"
           /\ GotList(run[CallRun(n)]) /\ Ended(run[CallRun(n)])
           /\ DistinctIds(run[CallRun(n)].list)) =>
            /\ run[CallRun(n)].pc = "done"
            /\ Cardinality({r \in RowsOf(customers, call[n].tenant) :
                  \E k \in DOMAIN run[CallRun(n)].list :
                      r.shopifyId = IdToString(run[CallRun(n)].list[k].id)})
                 = Len(run[CallRun(n)].list)
            /\ \A k \in DOMAIN run[CallRun(n)].list :
                  LET c == run[CallRun(n)].list[k]
                  IN  \E r \in RowsOf(customers, call[n].tenant) :
                          /\ r.shopifyId = IdToString(c.id)
                          /\ r.totalSpent = IF ParseFloat(c.total_spent) = NaN
                                            THEN Num(0) ELSE ParseFloat(c.total_spent)

\* C8: Partial-batch resilience.  ingestCustomers over N customers with
\* distinct ids, some with an unparsable total_spent, does not raise and
\* persists N rows: totalSpent is 0 for the unparsable ones and the parsed
\* amount for the others.
C8_PartialBatch == C8_Persisted

\* two customers, one with total_spent "abc": two rows, 0 and 12.50
C8_Witness ==
    /\ JustReturned(1, "customers")
    /\ \E k \in DOMAIN run[CallRun(1)].list : run[CallRun(1)].list[k].total_spent = TxtBad
    /\ \E r \in customers : r.shopifyId = "2" /\ r.totalSpent = Num(0)
    /\ \E r \in customers : r.shopifyId = "1" /\ r.totalSpent = Num(1250)
    /\ Cardinality(customers) = 2

NoTwoRows(table) ==
    \A r1, r2 \in table :
        (r1.tenantId = r2.tenantId /\ r1.shopifyId = r2.shopifyId) => r1 = r2

\* C3: No duplicate rows under concurrency.  In every reachable state of
\* overlapping ingestion runs, each of the Customer, Product and Order
\* tables holds at most one row per (tenantId, remoteId).
C3_NoDuplicateRows ==
    /\ NoTwoRows(customers)
    /\ NoTwoRows(products)
    /\ NoTwoRows(orders)

\* two calls of ingestCustomers for one tenant both found the customer
\* absent; one created the row, the insert of the other was rejected
C3_Witness ==
    /\ Made(1) /\ Made(2)
    /\ call[1].op = "customers" /\ call[2].op = "customers"
    /\ call[1].tenant = call[2].tenant
    /\ \E a, b \in {1, 2} :
          /\ run[CallRun(a)].pc = "done" /\ run[CallRun(a)].created = 1
          /\ run[CallRun(b)].pc = "failed" /\ run[CallRun(b)].i = 1
    /\ Cardinality(RowsOf(customers, call[1].tenant)) = 1

SchedRun(i, kind) == run[<< "sched", i, kind >>]

\* C4: Ordering inside ingestAll.  Within one ingestAll, ingestOrders has
\* received nothing from the remote shop and touched no row until both
\* ingestCustomers and ingestProducts of that ingestAll have finished.
C4_OrdersAfterCustomersAndProducts ==
    \A i \in 1..Len(TenantList) :
        GotList(SchedRun(i, "orders")) =>
            /\ Ended(SchedRun(i, "customers"))
            /\ Ended(SchedRun(i, "products"))

\* C7: Item-set replacement is atomic per order.  Every step that changes
\* the stored OrderItem set of an order leaves it the complete line-item set
\* of the run replacing it; no state between shows another set.
C7_ItemSetAtomic ==
    [][\A o \in orders :
          ItemsOf(orderItems', o.id) # ItemsOf(orderItems, o.id) =>
              \E r \in DOMAIN run :
                  /\ Kind(r) = "orders"
                  /\ run[r].pc \in {"deleteItems", "findProduct", "createItem"}
                  /\ run[r].order = o.id
                  /\ ExactItems(orderItems', o.id, run[r].list[run[r].i].line_items)]_vars

ItemsOfTenant(items, os, t) ==
    {it \in items : \E o \in os : o.id = it.orderId /\ o.tenantId = t}

\* every row a run holds in its locals is a row of the run's tenant
C9_ReadsOwn ==
    \A r \in DOMAIN run :
        LET rr == run[r]
        IN  /\ \A x \in Table(Kind(r)) : x.id = rr.existing => x.tenantId = rr.tenant
            /\ \A c \in customers : c.id = rr.customerId => c.tenantId = rr.tenant
            /\ \A q \in products : q.id = rr.productId => q.tenantId = rr.tenant
            /\ \A o \in orders : o.id = rr.order => o.tenantId = rr.tenant

\* what a run that returned has reconciled is a row of its tenant
C9_OwnRow ==
    \A r \in DOMAIN run :
        run[r].pc = "done" =>
            \A k \in DOMAIN run[r].list :
                Keyed(Table(Kind(r)), run[r].tenant, IdToString(run[r].list[k].id)) # {}

\* a step that changes rows of tenant t is a step of a run of tenant t
C9_Frame ==
    \A t \in Tenants :
        ( \/ RowsOf(customers', t) # RowsOf(customers, t)
          \/ RowsOf(products', t) # RowsOf(products, t)
          \/ RowsOf(orders', t) # RowsOf(orders, t)
          \/ ItemsOfTenant(orderItems', orders', t) # ItemsOfTenant(orderItems, orders, t) )
        => /\ \E r \in DOMAIN run : run'[r] # run[r]
           /\ \A r \in DOMAIN run : run'[r] # run[r] => run[r].tenant = t

\* C9: Cross-tenant isolation of writes.  A run for tenant T finds, creates,
\* updates and deletes only rows of T (OrderItems only of orders of T) and
\* leaves the rows of every other tenant unchanged; what it reconciled is
\* stored in a row of T, so two tenants ingesting the same remoteId end with
\* two rows, one each.
C9_TenantIsolation == [](C9_ReadsOwn /\ C9_OwnRow) /\ [][C9_Frame]_vars

\* both tenants ingested a customer with remoteId 1: two rows
C9_Witness ==
    /\ Made(1) /\ Made(2)
    /\ call[1].op = "customers" /\ call[2].op = "customers"
    /\ call[1].tenant # call[2].tenant
    /\ run[CallRun(1)].pc = "done" /\ run[CallRun(2)].pc = "done"
    /\ \E a, b \in customers :
          /\ a.tenantId = "t1" /\ b.tenantId = "t2"
          /\ a.shopifyId = "1" /\ b.shopifyId = "1"
          /\ a.id # b.id
    /\ Cardinality(customers) = 2

\* C10: Per-tenant failure isolation in the scheduled cycle.  Once the
\* ingestAll of tenant i has settled, resolved or rejected, its outcome is
\* logged and the ingestAll of tenant i + 1 is invoked; the cycle ends only
\* after every tenant was invoked, never on an error.
C10_FailureIsolation ==
    /\ sched.pc \in {"idle", "loop", "done"}
    /\ \A i \in 1..Len(sched.log) :
          /\ sched.log[i] = "failed" => \E k \in Kinds : SchedRun(i, k).pc = "failed"
          /\ sched.log[i] = "completed" => \A k \in Kinds : SchedRun(i, k).pc = "done"
          /\ i < Len(TenantList) =>
                \A k \in Kinds :
                    /\ SchedRun(i + 1, k).pc # "idle"
                    /\ SchedRun(i + 1, k).tenant = TenantList[i + 1]
    /\ sched.pc = "done" => Len(sched.log) = Len(TenantList)

\* the ingestAll of the first tenant raised, the one of the second ran to
\* its end
C10_Witness ==
    /\ sched.pc = "done"
    /\ sched.log = << "failed", "completed" >>
    /\ \A k \in Kinds : SchedRun(2, k).pc = "done"
    /\ \E c \in customers : c.tenantId = TenantList[2]

\* C18: Orchestrator failure conversion.  When one of the three ingestions
\* fails inside ingestAll, ingestAll returns an outcome to its caller: its
\* promise is never rejected and the caller's catch never runs.
C18_IngestAllNeverRaises ==
    /\ \A i \in 1..Len(TenantList) : IngestAllStatus("sched", i) # "rejected"
    /\ \A i \in 1..Len(sched.log) : sched.log[i] # "failed"

\* C19: Concurrent same-key writers both succeed.  A run whose insert is
\* rejected by the unique index goes on (the insert is retried as an
\* update): no run that received its collection ends by raising.
C19_BothWritersSucceed ==
    \A r \in DOMAIN run : GotList(run[r]) => run[r].pc # "failed"

\* the record has what the mapping and the store require
WellFormed(kind, rec) ==
    /\ rec.id # NoId
    /\ kind = "products" => rec.title # NoText

\* C17: Malformed records never abort a call.  An ingestion that received
\* its collection returns its counters, whatever records the collection
\* holds, and every well-formed record of the collection is reconciled.
C17_MalformedSkipped ==
    \A n \in DOMAIN call :
        (Made(n) /\ GotList(run[CallRun(n)]) /\ Ended(run[CallRun(n)])) =>
            /\ run[CallRun(n)].pc = "done"
            /\ \A k \in DOMAIN run[CallRun(n)].list :
                  WellFormed(call[n].op, run[CallRun(n)].list[k]) =>
                      Keyed(Table(call[n].op), call[n].tenant,
                            IdToString(run[CallRun(n)].list[k].id)) # {}

\* the page requests a complete fetch of the collection takes
NumPages(all) ==
    IF Len(all) = 0 THEN 1 ELSE (Len(all) + Limit - 1) \div Limit

\* the records of pages 1 .. k of the collection, in order
FirstPages(all, k) == SubSeq(all, 1, Min(k * Limit, Len(all)))

C15_Fetched ==
    \A r \in DOMAIN run :
        LET rr  == run[r]
            all == remote[rr.tenant][Kind(r)]
        IN  rr.pc # "idle" =>
              \* request k asks for page k: the first without cursor, each
              \* later one with the cursor the previous response carried
              /\ \A k \in DOMAIN rr.requests : rr.requests[k] = (k - 1) * Limit
              /\ Len(rr.requests) <= NumPages(all)
              \* while pages remain the loop goes on, holding the pages so far
              /\ (rr.pc = "fetch" /\ rr.requests # << >>) =>
                    /\ Len(rr.requests) < NumPages(all)
                    /\ rr.list = FirstPages(all, Len(rr.requests))
              \* what is returned is p1 \o ... \o pk
              /\ GotList(rr) =>
                    /\ Len(rr.requests) = NumPages(all)
                    /\ rr.list = all

\* C15: Cursor pagination completeness.  getCustomers/getProducts/getOrders
\* request each page once, in cursor order (the first request without
\* cursor, each later one with the cursor of the previous response), stop at
\* the first response without a next cursor, and return the concatenation of
\* the pages, no record lost or repeated.
C15_PaginationComplete == C15_Fetched

\* five customers arrived in three page requests
C15_Witness ==
    /\ Made(1) /\ call[1].op = "customers"
    /\ run[CallRun(1)].pc = "done"
    /\ Len(run[CallRun(1)].requests) = 3
    /\ Len(run[CallRun(1)].list) = 5
    /\ run[CallRun(1)].created = 5

\* the page request of the run failed
FailedInFetch(rr) == rr.pc = "failed" /\ rr.i = 0

C16_NoWrite ==
    \A n \in DOMAIN call :
        (Made(n) /\ FailedInFetch(run[CallRun(n)])) =>
            /\ run[CallRun(n)].created = 0
            /\ run[CallRun(n)].updated = 0
            /\ call[n].state \in {"running", "error"}
            /\ \A k \in DOMAIN run[CallRun(n)].requests :
                  run[CallRun(n)].requests[k] = (k - 1) * Limit

C16_Step ==
    \A r \in DOMAIN run :
        /\ (run[r].pc = "fetch" /\ run'[r] # run[r]) =>
              /\ customers' = customers /\ products' = products
              /\ orders' = orders /\ orderItems' = orderItems
              /\ run'[r].pc \in {"fetch", "find", "done", "failed"}
              /\ run'[r].pc \in {"find", "done"} =>
                    run'[r].list = remote[run[r].tenant][Kind(r)]
        /\ run[r].pc = "failed" => run'[r] = run[r]

\* C16: Page failure propagates with no partial write.  While a call
\* fetches its collection no row changes; only the complete collection is
\* reconciled; when a page request fails it is not issued again, the call
\* raises to its caller having created and updated nothing, whatever pages
\* arrived before, and takes no further step.
C16_PageFailure == [](C16_NoWrite) /\ [][C16_Step]_vars

\* the third page request of ingestCustomers failed after two pages had
\* arrived: the route answered with an error and no customer was stored
C16_Witness ==
    /\ Made(1) /\ call[1].op = "customers" /\ call[1].state = "error"
    /\ FailedInFetch(run[CallRun(1)])
    /\ Len(run[CallRun(1)].requests) = 3
    /\ Len(run[CallRun(1)].list) = 4
    /\ customers = {}

\* the outcome the cycle logged for tenant i
Logged(i, outcome) ==
    IF i <= Len(sched.log) THEN sched.log[i] = outcome ELSE FALSE

\* C20: Bounded per-tenant run.  In a scheduled cycle, once a page request
\* of tenant i's ingestion stays unanswered, the ingestion is eventually
\* abandoned and logged as failed for tenant i, and the cycle goes on to its
\* end through every later tenant.
C20_HungRunAbandoned ==
    \A i \in 1..Len(TenantList) :
        (\E k \in Kinds : SchedRun(i, k).pc = "hung")
            ~> (Logged(i, "failed") /\ <>(sched.pc = "done"))

(***************************************************************************)
(* Webhook intake and the sync routes (SpecIntake).                        *)
(***************************************************************************)
\* the request has got past the tenant lookup
Looked(c) == c.state \notin {"idle", "findTenant"}

NoRun(n) == \A k \in Kinds : run[<< "call", n, k >>].pc = "idle"

KnownShop(c) == \E t \in TenantTable : t.shopDomain = c.shopDomain

TokenOf(c) == (CHOOSE t \in TenantTable : t.shopDomain = c.shopDomain).accessToken

\* a signed webhook of a known shop whose signature is not the digest of the
\* body sent
Tampered(c) ==
    /\ c.via = "hook"
    /\ KnownShop(c)
    /\ c.signature # NoSignature
    /\ c.signature # Hmac(c.body, TokenOf(c))

\* C11: a webhook of a known shop whose signature is not the HMAC-SHA256
\* digest of the raw body under the tenant's access token is answered 401
\* and no ingestion is invoked for it.
C11_TamperedRejected ==
    \A n \in DOMAIN call :
        Tampered(call[n]) /\ Looked(call[n])
            => /\ call[n].state = "answered"
               /\ call[n].status = 401
               /\ NoRun(n)

\* a webhook of a known shop signed over the body sent with the shop's token
Genuine(c) ==
    /\ c.via = "hook"
    /\ KnownShop(c)
    /\ c.signature = Hmac(c.body, TokenOf(c))

\* C12: a correctly signed orders/updated webhook of a known shop is
\* accepted (answered 200), and when its order was fetched ingestOrders has
\* run once, to its end, before the answer.
C12_SignedOrderUpdateIngests ==
    \A n \in DOMAIN call :
        /\ Genuine(call[n])
        /\ call[n].topic = "orders/updated"
        /\ call[n].state = "answered"
        => /\ call[n].status = 200
           /\ call[n].order # "null" => Ended(run[<< "call", n, "orders" >>])

\* the re-sync the claim gives each topic
C13_Resync(topic) ==
    IF topic \in {"orders/create", "orders/updated", "orders/paid"} THEN "orders"
    ELSE IF topic \in {"customers/create", "customers/update"} THEN "customers"
    ELSE IF topic \in {"products/create", "products/update"} THEN "products"
    ELSE "-"

\* the webhook has reached the switch: its tenant exists, the signature
\* matched the body string and the body string parsed
Dispatched(c) ==
    /\ c.via = "hook"
    /\ Looked(c)
    /\ KnownShop(c)
    /\ c.signature = Hmac(BodyToString(JsonParse(c.body)), TokenOf(c))
    /\ HookData(c) # NotJson

MissingTenant(c) ==
    \/ /\ c.via = "hook"
       /\ c.signature # NoSignature
       /\ ~KnownShop(c)
    \/ /\ c.via = "sync"
       /\ \A t \in TenantTable : t.id # c.tenant

\* C14: a webhook (with its headers) of an unknown shop domain and a sync
\* request (all, customers, products, orders) of an unknown tenant id are
\* answered 404 and no ingestion is invoked for them.
C14_MissingTenant ==
    \A n \in DOMAIN call :
        MissingTenant(call[n]) /\ Looked(call[n])
            => /\ call[n].state = "answered"
               /\ call[n].status = 404
               /\ NoRun(n)

C14_Witness ==
    \E n \in DOMAIN call :
        /\ call[n].via = "hook"
        /\ MissingTenant(call[n])
        /\ call[n].status = 404


(***************************************************************************)
(* Monetary fields (SpecMoney).                                            *)
(***************************************************************************)
\* the remote record a row of tenant t was mapped from
RemoteOf(kind, t, row) ==
    LET list == remote[t][kind]
    IN  list[CHOOSE k \in DOMAIN list : IdToString(list[k].id) = row.shopifyId]

\* the text is there and is no number
Unparsable(text) == TruthyText(text) /\ ParseFloat(text) = NaN

\* C22: a monetary text that does not parse is stored as zero when it is a
\* required total (customer total_spent, order total_price, line-item
\* price) and as null when it is an optional amount (here the price of a
\* product's first variant); no stored amount is NaN.
C22_MonetaryDefaults ==
    /\ \A c \in customers :
          /\ c.totalSpent.tag = "num"
          /\ Unparsable(RemoteOf("customers", c.tenantId, c).total_spent) => c.totalSpent = Num(0)
    /\ \A o \in orders :
          /\ o.totalPrice.tag = "num"
          /\ Unparsable(RemoteOf("orders", o.tenantId, o).total_price) => o.totalPrice = Num(0)
    /\ \A it \in orderItems : it.price.tag = "num"
    /\ \A p \in products :
          LET variants == RemoteOf("products", p.tenantId, p).variants
          IN  /\ p.price.tag \in {"num", "null"}
              /\ Len(variants) > 0 /\ Unparsable(variants[1].price) => p.price = Null


(***************************************************************************)
(* References after one full sync (SpecCycle: the store starts empty and   *)
(* every tenant is synced once).                                           *)
(***************************************************************************)
InRemote(kind, t, sid) ==
    \E k \in DOMAIN remote[t][kind] : IdToString(remote[t][kind][k].id) = sid

\* C23: after a successful ingestAll on a tenant whose store was empty,
\* every stored order whose remote customer is in the remote customer
\* collection has a customerId, and every stored order item whose remote
\* product is in the remote product collection has a productId.
C23_ResolvedWithinIngestAll ==
    \A i \in 1..Len(TenantList) :
        IngestAllStatus("sched", i) = "resolved" =>
            LET t == TenantList[i]
            IN  /\ \A o \in RowsOf(orders, t) :
                      LET customer == RemoteOf("orders", t, o).customer
                      IN  customer # NoId /\ InRemote("customers", t, IdToString(customer))
                              => o.customerId # NoId
                /\ \A it \in ItemsOfTenant(orderItems, orders, t) :
                      it.shopifyProductId # NoText /\ InRemote("products", t, it.shopifyProductId)
                          => it.productId # NoId


(***************************************************************************)
(* Reference integrity (Spec: calls of both tenants overlap; the remote    *)
(* shops do not change, so the remote order is the one last reconciled).   *)
(***************************************************************************)
\* C24: an order's customerId is null or the internal id of a Customer row
\* of the order's tenant whose remote id is the one the remote order names;
\* an order item's productId is null or the internal id of a Product row of
\* the order's tenant whose remote id is the item's shopifyProductId.
C24_ReferenceIntegrity ==
    /\ \A o \in orders :
          o.customerId # NoId =>
              \E c \in customers :
                  /\ c.id = o.customerId
                  /\ c.tenantId = o.tenantId
                  /\ c.shopifyId = IdToString(RemoteOf("orders", o.tenantId, o).customer)
    /\ \A it \in orderItems :
          it.productId # NoId =>
              \E o \in orders, p \in products :
                  /\ o.id = it.orderId
                  /\ p.id = it.productId
                  /\ p.tenantId = o.tenantId
                  /\ p.shopifyId = it.shopifyProductId

\* an order was reconciled after its customer: it refers to the row
C24_Witness ==
    \E o \in orders, c \in customers :
        /\ o.customerId = c.id
        /\ c.tenantId = o.tenantId
        /\ \E r \in DOMAIN run : Kind(r) = "orders" /\ run[r].pc = "done"


(***************************************************************************)
(* Counters (SpecRepeated: calls follow one another, so no other run of    *)
(* the tenant is under way during a call).                                 *)
(***************************************************************************)
IdsOf(list) == {list[k].id : k \in DOMAIN list}

\* a call that returned counted every record of the fetched collection once
C25_Sum ==
    \A n \in DOMAIN call :
        (Made(n) /\ run[CallRun(n)].pc = "done") =>
            /\ run[CallRun(n)].list = remote[call[n].tenant][call[n].op]
            /\ run[CallRun(n)].created + run[CallRun(n)].updated = Len(run[CallRun(n)].list)

\* the first call of a kind on the empty store created one row per distinct
\* id and counted every further occurrence as updated
C25_Twice ==
    \A n \in DOMAIN call :
        ( /\ Made(n) /\ run[CallRun(n)].pc = "done"
          /\ \A m \in 1..(n - 1) : call[m].op # call[n].op ) =>
            /\ run[CallRun(n)].created = Cardinality(IdsOf(run[CallRun(n)].list))
            /\ run[CallRun(n)].updated =
                  Len(run[CallRun(n)].list) - Cardinality(IdsOf(run[CallRun(n)].list))

\* in every step of a call, created grows by what the number of the
\* tenant's rows of the entity type grows by, and by one for an id that was
\* new only
C25_Step ==
    \A n \in DOMAIN call :
        (Made(n) /\ n = LatestCall /\ call'[n] = call[n]) =>
            LET r == CallRun(n)
                t == call[n].tenant
                old == TenantRows(customers, products, orders, call[n].op, t)
                new == TenantRows(customers', products', orders', call[n].op, t)
            IN  /\ run'[r].created - run[r].created = Cardinality(new) - Cardinality(old)
                /\ run'[r].created + run'[r].updated - (run[r].created + run[r].updated) \in {0, 1}
                /\ run'[r].pc = "failed" => run'[r].created = run[r].created

\* C25: for a call of ingestCustomers, ingestProducts or ingestOrders that
\* returns, no other run of the tenant under way, created + updated is the
\* number of records fetched, created is the growth of the tenant's row
\* count, and an id that occurs twice in the collection is counted once as
\* created (or updated) and from then on as updated.
C25_CounterAccounting == [](C25_Sum /\ C25_Twice) /\ [][C25_Step]_vars

\* ingestCustomers on the empty store met customer 1 twice: two rows
\* created, one update
C25_Witness ==
    /\ Made(1) /\ call[1].op = "customers"
    /\ run[CallRun(1)].pc = "done"
    /\ Len(run[CallRun(1)].list) = 3
    /\ run[CallRun(1)].created = 2
    /\ run[CallRun(1)].updated = 1
    /\ Cardinality(RowsOf(customers, call[1].tenant)) = 2


(***************************************************************************)
(* Overlapping order re-syncs (Spec).                                      *)
(***************************************************************************)
\* C26: when two ingestOrders runs of one tenant over the same unchanged
\* remote order have both returned, whatever the interleaving of their
\* deleteMany and create steps, the order has exactly as many OrderItem
\* rows as the remote order has line items.
C26_ConcurrentItemSetExact ==
    \A r, q \in DOMAIN run :
        ( /\ r # q
          /\ Kind(r) = "orders" /\ Kind(q) = "orders"
          /\ run[r].pc = "done" /\ run[q].pc = "done"
          /\ run[r].tenant = run[q].tenant ) =>
            \A o \in RowsOf(orders, run[r].tenant) :
                Cardinality(ItemsOf(orderItems, o.id))
                    = Len(RemoteOf("orders", o.tenantId, o).line_items)


(***************************************************************************)
(* After a rejected ingestAll (SpecCycle).                                 *)
(***************************************************************************)
\* C27: once the ingestAll of tenant i has rejected and the scheduler has
\* gone on (to tenant i + 1 or to the end of the cycle), no ingestion of
\* that ingestAll is still under way, so none of them writes afterwards.
C27_NoWorkOutlivesFailure ==
    \A i \in 1..Len(TenantList) :
        Logged(i, "failed") => \A k \in Kinds : ~Active(SchedRun(i, k))


(***************************************************************************)
(* What the caller is told (SpecIntake).                                   *)
(***************************************************************************)
Responded(c) == c.state \in {"answered", "ok", "error"}

\* C28: a webhook or sync request whose ingestion failed is answered with a
\* reported error (a status that is not 2xx), not with a success.
C28_FailureReported ==
    \A n \in DOMAIN call :
        ( /\ Responded(call[n])
          /\ \E k \in Kinds : run[<< "call", n, k >>].pc = "failed" )
            => call[n].status \notin 200..299


(***************************************************************************)
(* The event log (SpecEvents).                                             *)
(***************************************************************************)
\* a step adds at most one Event row, that of the request just answered
\* with 200, carrying the tenant of its token, and changes no other row; a
\* step of an ingestion or of the scheduler leaves the events alone
C21_Step ==
    /\ events \subseteq events'
    /\ events' # events =>
          /\ Cardinality(events') = Cardinality(events) + 1
          /\ Len(posted') = Len(posted) + 1
          /\ posted'[Len(posted')].status = 200
          /\ \A e \in events' \ events :
                /\ e.tenantId = posted'[Len(posted')].tenantId
                /\ e.eventType = posted'[Len(posted')].eventType
          /\ UNCHANGED << customers, products, orders, orderItems, tenants, users >>
    /\ (run' # run \/ sched' # sched) => events' = events

C29_RegistrationAllOrNothing ==
    /\ \A t, u \in tenants : t.shopDomain = u.shopDomain => t = u
    /\ \A t, u \in users : t.email = u.email => t = u
    /\ \A n \in DOMAIN reg :
          (reg[n].pc = "answered" /\ reg[n].status # 201) =>
              /\ \A t \in tenants : t.id # NewTenantId(n)
              /\ \A u \in users : u.tenantId # NewTenantId(n)

====
